---- MODULE Spec2Model ----
(***************************************************************************)
(* A model of smooth-scroll.js (Aan Zee): the document-wide click          *)
(* listener, the anchor handler, scrollTo with its 16ms interval loop and  *)
(* termination test, the easing function and the geometry helpers.         *)
(*                                                                         *)
(* Numbers are exact rationals [n, d] in lowest terms (d > 0); the value   *)
(* with d = 0 stands for JavaScript's undefined.  Time is in milliseconds. *)
(* Timers fire at their nominal due time; the event loop runs one callback *)
(* at a time.                                                              *)
(***************************************************************************)
EXTENDS Integers, Sequences, FiniteSets, TLC

VARIABLES
    settings,     \* the settings object: speed and easing (offset is OffsetFraction)
    page,         \* layout of the document: heights and offset chains of elements
    pageYOffset,  \* root.pageYOffset, the viewport's live vertical scroll position
    now,          \* current time of the event loop, ms
    runs,         \* one record per scrollTo call: the closure variables of that call
    timeouts,     \* pending window.setTimeout callbacks of the "click" completion
    dispatched,   \* per run: the times a synthesized click was dispatched for it
    focused,      \* document.activeElement as set by destination.focus()
    history,      \* URLs pushed with history.pushState
    lastEvent,    \* the click event delivered by the latest step and what the
                  \* listener did with it; NoEvent after a tick of an interval
    easeType,     \* easing sampler: the pattern name under test
    easeIn,       \* easing sampler: last two inputs <<previous, current>>
    easeOut       \* easing sampler: last two outputs <<previous, current>>

vars == <<settings, page, pageYOffset, now, runs, timeouts, dispatched, focused,
          history, lastEvent, easeType, easeIn, easeOut>>

scrollVars == <<settings, page, pageYOffset, now, runs, timeouts, dispatched,
                focused, history, lastEvent>>

easeVars == <<easeType, easeIn, easeOut>>

-----------------------------------------------------------------------------
(* Bounds of the model.                                                    *)

MaxRuns == 2

GridN == 6

-----------------------------------------------------------------------------
(* Exact rational arithmetic standing for JavaScript numbers.              *)

Abs(x) == IF x < 0 THEN -x ELSE x

Max(a, b) == IF a >= b THEN a ELSE b

(* The element of a one-element set.  The operators below bind each       *)
(* operand to its value through such a set, so that a nested expression is *)
(* evaluated once.                                                         *)
Once(S) == CHOOSE x \in S : TRUE

RECURSIVE Gcd(_, _)
Gcd(a, b) == IF b = 0 THEN a ELSE Once({Gcd(b, r) : r \in {a % b}})

Rat(n, d) ==
    Once({ LET g == Gcd(Abs(x), Abs(y))
               s == IF y < 0 THEN -1 ELSE 1
           IN  [n |-> s * (x \div g), d |-> s * (y \div g)] : x \in {n}, y \in {d} })

Num(i) == [n |-> i, d |-> 1]

Undefined == [n |-> 0, d |-> 0]

RAdd(a, b) ==
    Once({ LET g == Gcd(x.d, y.d)
           IN  Rat(x.n * (y.d \div g) + y.n * (x.d \div g), (x.d \div g) * y.d)
           : x \in {a}, y \in {b} })

RNeg(a) == [n |-> -a.n, d |-> a.d]

RSub(a, b) == RAdd(a, RNeg(b))

RMul(a, b) ==
    Once({ LET g1 == Gcd(Abs(x.n), y.d)
               g2 == Gcd(Abs(y.n), x.d)
           IN  IF x.n = 0 \/ y.n = 0 THEN Num(0)
               ELSE [n |-> (x.n \div g1) * (y.n \div g2),
                     d |-> (x.d \div g2) * (y.d \div g1)]
           : x \in {a}, y \in {b} })

RDiv(a, b) == RMul(a, Rat(b.d, b.n))

RLess(a, b) == RSub(a, b).n < 0

RLeq(a, b) == RSub(a, b).n <= 0

RFloor(a) == a.n \div a.d

-----------------------------------------------------------------------------
(* settings, lines 27-31.                                                  *)

DefaultSettings == [speed |-> 4000, easing |-> "easeInOutCubic"]

OffsetFraction == Rat(1, 20)

TickMs == 16

ClickDelayMs == 300

easingPatternDropFactor(type, time) ==
    LET pattern ==
            IF type = "easeInOutCubic"
            THEN IF RLess(time, Rat(1, 2))
                 THEN RMul(RMul(RMul(Num(4), time), time), time)
                 ELSE RAdd(RMul(RSub(time, Num(1)), RSub(RMul(Num(2), time), Num(2))),
                           Num(1))
            ELSE Undefined
    IN  IF pattern = Undefined \/ pattern.n = 0 THEN time ELSE pattern

easingPatternSquare(type, time) ==
    LET pattern ==
            IF type = "easeInOutCubic"
            THEN IF RLess(time, Rat(1, 2))
                 THEN RMul(RMul(Num(4), time), time)
                 ELSE RAdd(RMul(RMul(RSub(time, Num(1)),
                                     RSub(RMul(Num(2), time), Num(2))),
                                RSub(RMul(Num(2), time), Num(2))),
                           Num(1))
            ELSE Undefined
    IN  IF pattern = Undefined \/ pattern.n = 0 THEN time ELSE pattern

easingPatternAnyName(type, time) ==
    LET pattern ==
            IF RLess(time, Rat(1, 2))
            THEN RMul(RMul(RMul(Num(4), time), time), time)
            ELSE RAdd(RMul(RMul(RSub(time, Num(1)),
                                RSub(RMul(Num(2), time), Num(2))),
                           RSub(RMul(Num(2), time), Num(2))),
                      Num(1))
    IN  IF pattern = Undefined \/ pattern.n = 0 THEN time ELSE pattern

(* easingPattern, lines 41-45: pattern stays undefined for any other type, *)
(* and `pattern || time` also returns time when pattern is 0.              *)
easingPattern(type, time) ==
    LET pattern ==
            IF type = "easeInOutCubic"
            THEN IF RLess(time, Rat(1, 2))
                 THEN RMul(RMul(RMul(Num(4), time), time), time)
                 ELSE RAdd(RMul(RMul(RSub(time, Num(1)),
                                     RSub(RMul(Num(2), time), Num(2))),
                                RSub(RMul(Num(2), time), Num(2))),
                           Num(1))
            ELSE Undefined
    IN  IF pattern = Undefined \/ pattern.n = 0 THEN time ELSE pattern

-----------------------------------------------------------------------------
(* The document.  A node has a tag name, a parent, an id, an href (a       *)
(* sequence of characters, empty when the attribute is missing) and the    *)
(* value of data-smooth-scroll ("" when the attribute is missing).         *)

Node(tag, parent, id, href, ss) ==
    [tagName |-> tag, parentNode |-> parent, id |-> id, href |-> href, smoothScroll |-> ss]

Dom ==
    [ doc     |-> Node("#document", "null", <<>>, <<>>, ""),
      body    |-> Node("BODY", "doc", <<>>, <<>>, ""),
      nav     |-> Node("NAV", "body", <<>>, <<>>, ""),
      aS      |-> Node("A", "nav", <<>>, <<"#", "s">>, ""),
      aIgn    |-> Node("A", "nav", <<>>, <<"#", "s">>, "ignore"),
      aDis    |-> Node("A", "nav", <<>>, <<"#", "s">>, "disable"),
      aClk    |-> Node("A", "nav", <<>>, <<"#", "t">>, "click"),
      spanClk |-> Node("SPAN", "aClk", <<>>, <<>>, ""),
      aTop    |-> Node("A", "nav", <<>>, <<"#", "p">>, ""),
      aIgnX   |-> Node("A", "nav", <<>>, <<"#", "s", "x">>, "ignore"),
      aMiss   |-> Node("A", "nav", <<>>, <<"#", "s", "x">>, ""),
      aExt    |-> Node("A", "nav", <<>>, <<"/", "s">>, ""),
      aNone   |-> Node("A", "nav", <<>>, <<>>, ""),
      p       |-> Node("DIV", "body", <<"p">>, <<>>, ""),
      s       |-> Node("SECTION", "body", <<"s">>, <<>>, ""),
      t       |-> Node("A", "s", <<"t">>, <<"#", "t">>, "") ]

Nodes == DOMAIN Dom

(* The nodes that carry an id.                                             *)
Elements == {"p", "s", "t"}

(* The nodes a user clicks: every kind of target, and the subset clicked   *)
(* while other runs are in flight.                                         *)
ClickTargets ==
    {"nav", "aS", "spanClk", "aIgn", "aIgnX", "aDis", "aTop", "aMiss", "aExt", "aNone"}

OverlapTargets == {"aS", "spanClk", "aTop", "aIgn", "aIgnX"}

(* document.getElementById, line 182: the node with that id, or "null".    *)
getElementById(id) ==
    IF \E e \in Elements : Dom[e].id = id
    THEN CHOOSE e \in Elements : Dom[e].id = id
    ELSE "null"

(* A page layout: the six height candidates of getDocumentHeight in the    *)
(* order of lines 156-158, the window's inner height, and for each element *)
(* the offsetTop values along its offsetParent chain, the element first (a *)
(* chain of length 1 is an element whose offsetParent is null).            *)
Layout(docH, innerH, starts, chainP, chainS, chainT) ==
    [ heights     |-> <<docH, docH, docH, docH, innerH, innerH>>,
      innerHeight |-> innerH,
      starts      |-> starts,
      chain       |-> [e \in Elements |->
                          IF e = "p" THEN chainP ELSE IF e = "s" THEN chainS ELSE chainT] ]

(* Small layouts, on which overlapping runs stay within machine integers.  *)
Pages ==
    { Layout(500, 200, {0, 260}, <<0, 0>>, <<270, 0>>, <<100, 40, 0>>),
      Layout(400, 200, {0, 200}, <<-30, 10, 0>>, <<350, 0>>, <<250, 40, 0>>),
      Layout(330, 30, {0, 300}, <<50>>, <<200, 0>>, <<80, 40, 0>>),
      Layout(200, 200, {0}, <<0, 0>>, <<180, 0>>, <<100, 50, 0>>) }

(* The layout of the scenario: viewport 800 high at offset 0, destination  *)
(* at document offset 2000.                                                *)
ScenarioPage == Layout(4000, 800, {0}, <<0, 0>>, <<2000, 0>>, <<600, 1000, 0>>)

RECURSIVE SeqMax(_)
SeqMax(q) == IF Len(q) = 1 THEN q[1] ELSE Max(q[1], SeqMax(Tail(q)))

(* getDocumentHeight, lines 154-160.                                       *)
getDocumentHeight(pg) == SeqMax(pg.heights)

(* getEndLocation, lines 137-147: the loop runs only when the element has  *)
(* an offsetParent, and then adds every offsetTop of the chain.            *)
RECURSIVE SumChain(_)
SumChain(chain) == IF chain = <<>> THEN 0 ELSE chain[1] + SumChain(Tail(chain))

getEndLocationUnclamped(chain) == IF Len(chain) > 1 THEN SumChain(chain) ELSE 0

getEndLocation(chain) ==
    LET location == IF Len(chain) > 1 THEN SumChain(chain) ELSE 0
    IN  IF location >= 0 THEN location ELSE 0

(* The browser's window.scrollTo(0, y) and the value pageYOffset then      *)
(* reports: y is clamped to the scrollable range of the document.          *)
MaxScroll(pg) == Max(0, pg.heights[2] - pg.heights[6])

ScrollClamp(pg, y) == IF y < 0 THEN 0 ELSE IF y > MaxScroll(pg) THEN MaxScroll(pg) ELSE y

-----------------------------------------------------------------------------
(* scrollTo, lines 52-119.                                                 *)

(* viewportHeight, line 55.                                                *)
viewportHeight(pg) == Max(pg.heights[6], pg.innerHeight)

(* endLocation, line 56.                                                   *)
endLocationOf(pg, destination) ==
    RSub(Num(getEndLocation(pg.chain[destination])),
         RMul(Num(viewportHeight(pg)), OffsetFraction))

timeToAnimateSeconds(distance, speed) == RDiv(distance, Num(speed))

(* timeToAnimate, line 63.                                                 *)
timeToAnimateOf(distance, speed) == RMul(RDiv(distance, Num(speed)), Num(1000))

NewRunNotStarted(destination, callback, time) ==
    LET startLocation == pageYOffset
        endLocation   == endLocationOf(page, destination)
        distance      == RSub(endLocation, Num(startLocation))
    IN  [ destination       |-> destination,
          callback          |-> callback,
          startLocation     |-> startLocation,
          documentHeight    |-> getDocumentHeight(page),
          endLocation       |-> endLocation,
          distance          |-> distance,
          timeLapsed        |-> 0,
          percentage        |-> Undefined,
          position          |-> Undefined,
          timeToAnimate     |-> timeToAnimateOf(distance, settings.speed),
          animationInterval |-> FALSE,
          nextFire          |-> time + TickMs,
          startedAt         |-> time,
          stoppedAt         |-> -1,
          reported          |-> startLocation,
          prevReported      |-> startLocation,
          focusCalls        |-> 0,
          callbackCalls     |-> 0,
          effects           |-> <<>> ]

(* The closure of one scrollTo call, lines 53-63, with its interval timer  *)
(* set by startAnimateScroll, lines 105-107 and 118.                       *)
NewRun(destination, callback, time) ==
    LET startLocation == pageYOffset
        endLocation   == endLocationOf(page, destination)
        distance      == RSub(endLocation, Num(startLocation))
    IN  [ destination       |-> destination,
          callback          |-> callback,
          startLocation     |-> startLocation,
          documentHeight    |-> getDocumentHeight(page),
          endLocation       |-> endLocation,
          distance          |-> distance,
          timeLapsed        |-> 0,
          percentage        |-> Undefined,
          position          |-> Undefined,
          timeToAnimate     |-> timeToAnimateOf(distance, settings.speed),
          animationInterval |-> TRUE,
          nextFire          |-> time + TickMs,
          startedAt         |-> time,
          stoppedAt         |-> -1,
          reported          |-> startLocation,
          prevReported      |-> startLocation,
          focusCalls        |-> 0,
          callbackCalls     |-> 0,
          effects           |-> <<>> ]

(* percentage, lines 71-72: a division by a zero timeToAnimate gives       *)
(* Infinity, which line 72 replaces by 1.                                  *)
percentageOf(timeLapsed, timeToAnimate) ==
    IF timeToAnimate.n = 0 THEN Num(1)
    ELSE LET q == RDiv(Num(timeLapsed), timeToAnimate)
         IN  IF RLess(Num(1), q) THEN Num(1) ELSE q

(* acceleration, lines 75-78.                                              *)
accelerationOf(type, percentage) ==
    LET a == easingPattern(type, percentage)
    IN  IF a.n < 0 THEN RNeg(a) ELSE a

(* position, line 80.                                                      *)
positionOf(startLocation, distance, acceleration) ==
    RAdd(Num(startLocation), RMul(distance, acceleration))

StopConditionStrict(position, endLocation, currentLocation, innerHeight, documentHeight) ==
    \/ RLess(endLocation, position)
    \/ RLess(endLocation, Num(currentLocation))
    \/ innerHeight + currentLocation >= documentHeight
    \/ position.n < 0

StopConditionNoBottom(position, endLocation, currentLocation, innerHeight, documentHeight) ==
    \/ position = endLocation
    \/ Num(currentLocation) = endLocation
    \/ position.n < 0

(* The test of stopAnimateScroll, line 94.                                 *)
StopCondition(position, endLocation, currentLocation, innerHeight, documentHeight) ==
    \/ position = endLocation
    \/ Num(currentLocation) = endLocation
    \/ innerHeight + currentLocation >= documentHeight
    \/ position.n < 0

(* clearInterval(animationInterval), line 95: the interval stays live      *)
(* exactly when the test of line 94 failed.                                *)
StopEffectsFocusFirst(callback) ==
    <<"focus", "clearInterval">> \o (IF callback # "none" THEN <<"callback">> ELSE <<>>)

(* The statements of the branch of stopAnimateScroll, lines 95-97, in the  *)
(* order they execute.                                                     *)
StopEffects(callback) ==
    <<"clearInterval", "focus">> \o (IF callback # "none" THEN <<"callback">> ELSE <<>>)

IntervalNeverCleared(stop) == TRUE

IntervalAfter(stop) == ~stop

NoEvent ==
    [target |-> "null", anchor |-> "null", synthetic |-> FALSE,
     defaultPrevented |-> FALSE, started |-> 0]

(* The timers of the event loop: the due times of the live intervals and   *)
(* of the pending timeouts.                                                *)
DueTimes ==
    {runs[r].nextFire : r \in {i \in 1..Len(runs) : runs[i].animationInterval}}
        \cup {t.due : t \in timeouts}

IsNextDue(time) == time \in DueTimes /\ \A d \in DueTimes : time <= d

(* loopAnimateScroll, lines 69-83, with stopAnimateScroll, lines 92-99,    *)
(* and the completion callback of the "click" anchors, lines 187-194.      *)
(* Each local of the loop is bound to the one value the code assigns it.   *)
Tick(r) ==
    /\ r \in 1..Len(runs)
    /\ runs[r].animationInterval
    /\ IsNextDue(runs[r].nextFire)
    /\ \E timeLapsed \in {runs[r].timeLapsed + TickMs} :
       \E percentage \in {percentageOf(timeLapsed, runs[r].timeToAnimate)} :
       \E acceleration \in {accelerationOf(settings.easing, percentage)} :
       \E position \in {positionOf(runs[r].startLocation, runs[r].distance, acceleration)} :
       \E current \in {ScrollClamp(page, RFloor(position))} :
       \E stop \in {StopCondition(position, runs[r].endLocation, current,
                                  page.innerHeight, runs[r].documentHeight)} :
           LET run == runs[r]
           IN  /\ now' = run.nextFire
               /\ pageYOffset' = current
               /\ runs' = [runs EXCEPT ![r] =
                      [run EXCEPT !.timeLapsed = timeLapsed,
                                  !.percentage = percentage,
                                  !.position = position,
                                  !.prevReported = run.reported,
                                  !.reported = current,
                                  !.nextFire = @ + TickMs,
                                  !.animationInterval = IntervalAfter(stop),
                                  !.stoppedAt = IF stop THEN now' ELSE @,
                                  !.focusCalls = IF stop THEN @ + 1 ELSE @,
                                  !.callbackCalls =
                                      IF stop /\ run.callback # "none" THEN @ + 1 ELSE @,
                                  !.effects =
                                      IF stop THEN @ \o StopEffects(run.callback) ELSE @]]
               /\ focused' = IF stop THEN run.destination ELSE focused
               /\ timeouts' = IF stop /\ run.callback = "click"
                              THEN timeouts \cup {[due |-> now' + ClickDelayMs, run |-> r,
                                                   target |-> run.destination]}
                              ELSE timeouts
    /\ lastEvent' = NoEvent
    /\ UNCHANGED <<settings, page, dispatched, history, easeVars>>

-----------------------------------------------------------------------------
(* The click listener and the handler, lines 177-214.                      *)

FindAnchorTargetOnly(target) ==
    IF target = "null" \/ target = "doc" THEN "null"
    ELSE IF Dom[target].tagName = "A" THEN target
    ELSE "null"

(* The loop of lines 206-212: the nearest anchor from the target up to,    *)
(* and excluding, the document; "null" when there is none.                 *)
RECURSIVE FindAnchor(_)
FindAnchor(target) ==
    IF target = "null" \/ target = "doc" THEN "null"
    ELSE IF Dom[target].tagName = "A" THEN target
    ELSE FindAnchor(Dom[target].parentNode)

InterceptsUnlessDisable(a) ==
    /\ Dom[a].href # <<>>
    /\ Dom[a].href[1] = "#"
    /\ Dom[a].smoothScroll # "disable"

(* The test of line 181.                                                   *)
Intercepts(a) ==
    /\ Dom[a].href # <<>>
    /\ Dom[a].href[1] = "#"
    /\ Dom[a].smoothScroll # "ignore"

LinkedElementFirstChar(a) == getElementById(<<Dom[a].href[2]>>)

(* linkedElement, line 182.                                                *)
LinkedElement(a) == getElementById(Tail(Dom[a].href))

CallbackAlways(a) == "click"

(* The callback handed to scrollTo, lines 186-197.                         *)
CallbackOf(a) == IF Dom[a].smoothScroll = "click" THEN "click" ELSE "none"

(* The flag handed to updateUrl, line 199.                                 *)
UpdateUrlFlag == FALSE

updateUrlIgnoringFlag(hist, anchor, url) == Append(hist, anchor)

(* updateUrl, lines 168-172.                                               *)
updateUrl(hist, anchor, url) == IF url THEN Append(hist, anchor) ELSE hist

ListenerCancellingRuns(target, synthetic, time) ==
    LET a  == FindAnchor(target)
        go == a # "null" /\ Intercepts(a) /\ LinkedElement(a) # "null"
    IN  IF go
        THEN /\ synthetic \/ Len(runs) < MaxRuns
             /\ runs' = Append([i \in 1..Len(runs) |->
                                   [runs[i] EXCEPT !.animationInterval = FALSE]],
                               NewRun(LinkedElement(a), CallbackOf(a), time))
             /\ pageYOffset' = IF pageYOffset = 0 THEN ScrollClamp(page, 0) ELSE pageYOffset
             /\ history' = updateUrl(history, Dom[a].href, UpdateUrlFlag)
             /\ lastEvent' = [target |-> target, anchor |-> a, synthetic |-> synthetic,
                              defaultPrevented |-> ~synthetic,
                              started |-> Len(runs) + 1]
        ELSE /\ lastEvent' = [target |-> target, anchor |-> a, synthetic |-> synthetic,
                              defaultPrevented |-> FALSE, started |-> 0]
             /\ UNCHANGED <<runs, pageYOffset, history>>

(* One click event with the given target reaching the document listener at *)
(* the given time.  e.preventDefault() has an effect on a cancelable event *)
(* only; the synthesized click of line 191 is not cancelable.  MaxRuns     *)
(* bounds the runs users start; a synthesized click always gets its run,   *)
(* so that there are never more than 2 * MaxRuns runs.                     *)
Listener(target, synthetic, time) ==
    LET a  == FindAnchor(target)
        go == a # "null" /\ Intercepts(a) /\ LinkedElement(a) # "null"
    IN  IF go
        THEN /\ synthetic \/ Len(runs) < MaxRuns
             /\ runs' = Append(runs, NewRun(LinkedElement(a), CallbackOf(a), time))
             /\ pageYOffset' = IF pageYOffset = 0 THEN ScrollClamp(page, 0) ELSE pageYOffset
             /\ history' = updateUrl(history, Dom[a].href, UpdateUrlFlag)
             /\ lastEvent' = [target |-> target, anchor |-> a, synthetic |-> synthetic,
                              defaultPrevented |-> ~synthetic,
                              started |-> Len(runs) + 1]
        ELSE /\ lastEvent' = [target |-> target, anchor |-> a, synthetic |-> synthetic,
                              defaultPrevented |-> FALSE, started |-> 0]
             /\ UNCHANGED <<runs, pageYOffset, history>>

(* A user clicks a node.  The click arrives between two timer callbacks,   *)
(* at the time of the latest one.                                          *)
Click(target) ==
    /\ Listener(target, FALSE, now)
    /\ UNCHANGED <<settings, page, now, timeouts, dispatched, focused, easeVars>>

(* The timeout of lines 189-193 fires: a click event is dispatched on the  *)
(* destination and bubbles to the document listener.                       *)
TimeoutFire(t) ==
    /\ t \in timeouts
    /\ IsNextDue(t.due)
    /\ now' = t.due
    /\ timeouts' = timeouts \ {t}
    /\ dispatched' = Append(dispatched, [run |-> t.run, target |-> t.target, at |-> now'])
    /\ Listener(t.target, TRUE, now')
    /\ UNCHANGED <<settings, page, focused, easeVars>>

-----------------------------------------------------------------------------
(* The easing sampler: easingPattern applied to points of a grid.          *)

EaseTypes == {"easeInOutCubic", "linear", "easeOutQuad", ""}

Grid == {Rat(i, 2 * GridN) : i \in 0..(2 * GridN)}

EaseIdle ==
    /\ easeType = ""
    /\ easeIn = <<Num(0), Num(0)>>
    /\ easeOut = <<Num(0), Num(0)>>

EaseSample(t) ==
    /\ easeIn' = <<easeIn[2], t>>
    /\ easeOut' = <<easeOut[2], easingPattern(easeType, t)>>
    /\ UNCHANGED <<easeType, scrollVars>>

-----------------------------------------------------------------------------
(* Specifications.                                                         *)

InitScroll(choices, pages) ==
    /\ settings \in choices
    /\ page \in pages
    /\ pageYOffset \in page.starts
    /\ now = 0
    /\ runs = <<>>
    /\ timeouts = {}
    /\ dispatched = <<>>
    /\ focused = "body"
    /\ history = <<>>
    /\ lastEvent = NoEvent

Init == InitScroll({DefaultSettings}, Pages) /\ EaseIdle

Next ==
    \/ \E target \in OverlapTargets : Click(target)
    \/ \E r \in 1..(2 * MaxRuns) : Tick(r)
    \/ \E t \in timeouts : TimeoutFire(t)

Spec == Init /\ [][Next]_vars

(* The program with its timers firing: as long as a timer callback is due, *)
(* the browser runs the one due first.  The layouts are those with a 200px *)
(* viewport that can scroll; the clicks are those that start a run.        *)
FairTargets == {"aS", "spanClk", "aTop"}

FairPages == {pg \in Pages : pg.innerHeight = 200 /\ MaxScroll(pg) > 0}

InitFair == InitScroll({DefaultSettings}, FairPages) /\ EaseIdle

TimerFires ==
    \/ \E r \in 1..(2 * MaxRuns) : Tick(r)
    \/ \E t \in timeouts : TimeoutFire(t)

NextFair ==
    \/ \E target \in FairTargets : Click(target)
    \/ TimerFires

Fairness == WF_vars(TimerFires)

SpecFair == InitFair /\ [][NextFair]_vars /\ Fairness

(* The same program under other configured speeds and easings.             *)
SettingsChoices ==
    {[speed |-> sp, easing |-> e] : sp \in {4000, 8000}, e \in {"easeInOutCubic", "linear"}}

InitConfigured == InitScroll(SettingsChoices, Pages) /\ EaseIdle

SpecConfigured == InitConfigured /\ [][Next]_vars

(* The program used without overlap: a user clicks only when no interval   *)
(* is live and no timeout is pending.  The scenario layout is included.    *)
Idle == DueTimes = {}

InitSequential == InitScroll({DefaultSettings}, Pages \cup {ScenarioPage}) /\ EaseIdle

NextSequential ==
    \/ \E target \in ClickTargets : Idle /\ Click(target)
    \/ \E r \in 1..(2 * MaxRuns) : Tick(r)
    \/ \E t \in timeouts : TimeoutFire(t)

SpecSequential == InitSequential /\ [][NextSequential]_vars

(* easingPattern alone, over the grid and every pattern name.              *)
InitEase ==
    /\ InitScroll({DefaultSettings}, {ScenarioPage})
    /\ easeType \in EaseTypes
    /\ easeIn = <<Num(0), Num(0)>>
    /\ easeOut = <<easingPattern(easeType, Num(0)), easingPattern(easeType, Num(0))>>

NextEase == \E t \in Grid : EaseSample(t)

SpecEase == InitEase /\ [][NextEase]_vars

(* easingPattern over arguments outside [0,1] as well: the grid extended   *)
(* from -1 to 2.                                                           *)
WideGrid == {Rat(i, 2 * GridN) : i \in (-2 * GridN)..(4 * GridN)}

NextEaseWide == \E t \in WideGrid : EaseSample(t)

SpecEaseWide == InitEase /\ [][NextEaseWide]_vars

-----------------------------------------------------------------------------
(* Properties.                                                             *)

RunIds == 1..Len(runs)

Stopped(r) == ~runs[r].animationInterval

Ticks(r) == runs[r].timeLapsed \div TickMs

(* C1: the callback handed to one scrollTo call is invoked at most once,   *)
(* whatever the geometry, however many ticks follow and whether or not     *)
(* other runs overlap it.                                                  *)
C1_CallbackAtMostOnce == \A r \in RunIds : runs[r].callbackCalls <= 1

(* A later run has completed and called back while an earlier run, which   *)
(* it overlapped, is still ticking.                                        *)
C1_Witness ==
    /\ Len(runs) = 2
    /\ runs[2].callbackCalls = 1
    /\ runs[1].animationInterval
    /\ runs[1].timeLapsed > 0

(* C2: a run whose distance is 0 stops on its first tick, moves focus and  *)
(* invokes its callback exactly once then, for every configured speed and  *)
(* easing; it never ticks a second time.                                   *)
C2_ZeroDistanceStopsOnFirstTick ==
    \A r \in RunIds :
        runs[r].distance = Num(0) =>
            /\ runs[r].timeLapsed <= TickMs
            /\ runs[r].timeLapsed = 0 =>
                   /\ runs[r].animationInterval
                   /\ runs[r].callbackCalls = 0
            /\ runs[r].timeLapsed = TickMs =>
                   /\ Stopped(r)
                   /\ runs[r].focusCalls = 1
                   /\ runs[r].callbackCalls = IF runs[r].callback = "none" THEN 0 ELSE 1

(* A run of distance 0 with a callback has ticked once and called back.    *)
C2_Witness ==
    \E r \in RunIds :
        /\ runs[r].distance = Num(0)
        /\ runs[r].callback = "click"
        /\ runs[r].timeLapsed = TickMs
        /\ runs[r].callbackCalls = 1

Downward(r) == runs[r].distance.n > 0

(* C3 as stated: every tick of a downward run that leaves the run live     *)
(* reports a scroll position strictly above the one its previous tick      *)
(* reported (the start offset, for the first tick).                        *)
C3_StrictlyIncreases ==
    \A r \in RunIds :
        (Downward(r) /\ runs[r].timeLapsed > 0 /\ runs[r].animationInterval)
            => runs[r].reported > runs[r].prevReported

(* C3 amended: no tick of a downward run, the terminating one included,    *)
(* reports a scroll position below the one its previous tick reported.     *)
C3_NeverDecreases ==
    \A r \in RunIds :
        (Downward(r) /\ runs[r].timeLapsed > 0)
            => runs[r].reported >= runs[r].prevReported

(* A downward run is at least two ticks in, still live, and has moved.     *)
C3_Witness ==
    \E r \in RunIds :
        /\ Downward(r)
        /\ Ticks(r) >= 2
        /\ runs[r].animationInterval
        /\ runs[r].reported > runs[r].prevReported

RCeil(a) == -((-a.n) \div a.d)

(* The number of the tick on which elapsed time first reaches the duration *)
(* distance / speed * 1000, computed from the run's start and end offsets. *)
ExpectedTicks(r) ==
    RCeil(RDiv(RDiv(RMul(RSub(runs[r].endLocation, Num(runs[r].startLocation)), Num(1000)),
                    Num(settings.speed)),
               Num(TickMs)))

(* A downward run whose end offset lies above the lowest scroll position.  *)
Reachable(r) == Downward(r) /\ RLess(runs[r].endLocation, Num(MaxScroll(page)))

IsScenario(r) ==
    page = ScenarioPage /\ runs[r].startLocation = 0 /\ runs[r].destination = "s"

(* C4 as stated: a downward run to a reachable end offset stops on tick    *)
(* ceil(durationMs / 16) with the applied position equal to the end        *)
(* offset.                                                                 *)
C4_FinalEqualsEndOffset ==
    \A r \in RunIds :
        (Reachable(r) /\ Stopped(r))
            => /\ Ticks(r) = ExpectedTicks(r)
               /\ Num(runs[r].reported) = runs[r].endLocation

(* C4 amended: such a run stops on tick ceil(durationMs / 16) and on no    *)
(* earlier tick, with the applied position equal to the floor of the end   *)
(* offset; in the scenario the end offset is 1960, the duration 490ms, the *)
(* terminating tick the 31st and the final applied position 1960.          *)
C4_FinalEqualsFloorOfEndOffset ==
    \A r \in RunIds :
        /\ Reachable(r) =>
               /\ Ticks(r) <= ExpectedTicks(r)
               /\ Stopped(r) <=> Ticks(r) = ExpectedTicks(r)
               /\ Stopped(r) => runs[r].reported = RFloor(runs[r].endLocation)
        /\ IsScenario(r) =>
               /\ Reachable(r)
               /\ runs[r].endLocation = Num(1960)
               /\ runs[r].timeToAnimate = Num(490)
               /\ ExpectedTicks(r) = 31
               /\ Stopped(r) => (Ticks(r) = 31 /\ runs[r].reported = 1960)

(* The run of the scenario has stopped, on its 31st tick, at 1960.         *)
C4_Witness ==
    \E r \in RunIds :
        /\ IsScenario(r)
        /\ Stopped(r)
        /\ Ticks(r) = 31
        /\ pageYOffset = 1960

(* A run whose end offset lies below the lowest scroll position: scrolling *)
(* to it would exceed the document height.                                 *)
Beyond(r) == RLess(Num(runs[r].documentHeight - page.innerHeight), runs[r].endLocation)

(* C5: a run toward an end offset beyond the bottom stops on the first     *)
(* tick after which innerHeight + pageYOffset >= documentHeight, whether   *)
(* or not position has reached the end offset, and on that tick moves      *)
(* focus and invokes the callback.                                         *)
C5_StopsAtBottom ==
    \A r \in RunIds :
        Beyond(r) =>
            /\ runs[r].timeLapsed = 0 => runs[r].animationInterval
            /\ runs[r].timeLapsed > 0 =>
                   (Stopped(r) <=>
                        page.innerHeight + runs[r].reported >= runs[r].documentHeight)
            /\ Stopped(r) =>
                   /\ runs[r].stoppedAt = runs[r].startedAt + runs[r].timeLapsed
                   /\ runs[r].focusCalls = 1
                   /\ runs[r].callbackCalls = IF runs[r].callback = "none" THEN 0 ELSE 1

(* Such a run, with a callback, has stopped at the bottom after more than  *)
(* one tick, with position short of the end offset.                        *)
C5_Witness ==
    \E r \in RunIds :
        /\ Beyond(r)
        /\ Stopped(r)
        /\ Ticks(r) > 1
        /\ RLess(runs[r].position, runs[r].endLocation)
        /\ runs[r].callbackCalls = 1

(* The latest step delivered a click on, or inside, an anchor whose        *)
(* data-smooth-scroll attribute has the given value.                       *)
ClickedMarked(event, mark) ==
    event.anchor # "null" /\ ~event.synthetic /\ Dom[event.anchor].smoothScroll = mark

(* The listener left the event alone: the default is not prevented, no     *)
(* scrollTo call is made, no timer is started and nothing else changes.    *)
NotIntercepted ==
    /\ ~lastEvent'.defaultPrevented
    /\ lastEvent'.started = 0
    /\ UNCHANGED <<runs, timeouts, pageYOffset, focused, history, dispatched, now>>

(* C6: a click on an anchor marked "ignore" is not intercepted, whether    *)
(* its href resolves to an element or not and whether or not runs are in   *)
(* flight.                                                                 *)
C6_IgnoreNotIntercepted ==
    [][ClickedMarked(lastEvent', "ignore") => NotIntercepted]_vars

(* An anchor marked "ignore" whose target exists was clicked while a run   *)
(* was ticking.                                                            *)
C6_Witness ==
    /\ lastEvent.anchor = "aIgn"
    /\ \E r \in RunIds : runs[r].animationInterval /\ runs[r].timeLapsed > 0

(* C7: a click on an anchor marked "disable" starts no run and leaves the  *)
(* default behaviour in place.                                             *)
C7_DisableNotIntercepted ==
    ClickedMarked(lastEvent, "disable")
        => (~lastEvent.defaultPrevented /\ lastEvent.started = 0)

(* C8: every synthesized click belongs to a stopped run started by an      *)
(* anchor marked "click", is dispatched on that run's destination 300ms    *)
(* after the run's terminating tick, and happens once per such run: a      *)
(* stopped run of a "click" anchor has either its one timeout pending, due *)
(* 300ms after its terminating tick, or its one dispatched click; any      *)
(* other run has neither.  A run gets the callback exactly when its anchor *)
(* is marked "click".                                                      *)
C8_ClickOnce300msAfterStop ==
    /\ \A i \in 1..Len(dispatched) :
           LET d == dispatched[i]
           IN  /\ d.run \in RunIds
               /\ runs[d.run].callback = "click"
               /\ Stopped(d.run)
               /\ d.at = runs[d.run].stoppedAt + 300
               /\ d.target = runs[d.run].destination
    /\ \A r \in RunIds :
           LET sent    == {i \in 1..Len(dispatched) : dispatched[i].run = r}
               pending == {t \in timeouts : t.run = r}
           IN  IF runs[r].callback = "click" /\ Stopped(r)
               THEN /\ Cardinality(sent) + Cardinality(pending) = 1
                    /\ \A t \in pending :
                           t.due = runs[r].stoppedAt + 300 /\ now <= t.due
               ELSE sent = {} /\ pending = {}
    /\ lastEvent.started > 0 =>
           (runs[lastEvent.started].callback = "click"
                <=> Dom[lastEvent.anchor].smoothScroll = "click")

(* A click has been dispatched for a run, and a run without the mark has   *)
(* stopped too.                                                            *)
C8_Witness ==
    /\ Len(dispatched) = 1
    /\ dispatched[1].at = runs[dispatched[1].run].stoppedAt + 300
    /\ \E r \in RunIds : runs[r].callback = "none" /\ Stopped(r)

(* An anchor whose href starts with '#' and whose fragment is the id of no *)
(* node of the document.                                                   *)
Unresolved(a) ==
    /\ Dom[a].href # <<>>
    /\ Head(Dom[a].href) = "#"
    /\ \A e \in Nodes : Dom[e].id # Tail(Dom[a].href)

(* C9: a click on an anchor whose fragment matches no element id is not    *)
(* intercepted.                                                            *)
C9_UnresolvedNotIntercepted ==
    [][(lastEvent'.anchor # "null" /\ ~lastEvent'.synthetic /\ Unresolved(lastEvent'.anchor))
           => NotIntercepted]_vars

(* An anchor with an unresolvable fragment was clicked after a run.        *)
C9_Witness ==
    /\ lastEvent.anchor = "aMiss"
    /\ Len(runs) > 0

(* C10: on the grid, easeInOutCubic stays within [0,1], is non-decreasing, *)
(* and maps 0 to 0, 1/2 to 1/2 and 1 to 1.                                 *)
C10_EaseInOutCubic ==
    easeType = "easeInOutCubic" =>
        /\ RLeq(Num(0), easeOut[2]) /\ RLeq(easeOut[2], Num(1))
        /\ RLeq(easeIn[1], easeIn[2]) => RLeq(easeOut[1], easeOut[2])
        /\ easeIn[2] = Num(0) => easeOut[2] = Num(0)
        /\ easeIn[2] = Rat(1, 2) => easeOut[2] = Rat(1, 2)
        /\ easeIn[2] = Num(1) => easeOut[2] = Num(1)

(* The pattern was sampled at 1/2 and then at 1.                           *)
C10_Witness ==
    /\ easeType = "easeInOutCubic"
    /\ easeIn = <<Rat(1, 2), Num(1)>>
    /\ easeOut = <<Rat(1, 2), Num(1)>>

(* C11: for a pattern name other than the registered one, the empty name   *)
(* included, easingPattern returns its argument unchanged, for arguments   *)
(* inside and outside [0,1]; it always yields a number.                    *)
C11_UnknownNameIsIdentity ==
    easeType # "easeInOutCubic" =>
        /\ easeOut[2] = easeIn[2]
        /\ easeOut[2] # Undefined

(* An unregistered pattern was sampled at 1/3 and then at a negative       *)
(* argument.                                                               *)
C11_Witness ==
    /\ easeType = "easeOutQuad"
    /\ easeIn = <<Rat(1, 3), Rat(-1, 2)>>
    /\ easeOut = <<Rat(1, 3), Rat(-1, 2)>>

(* The offset-top values of a chain added up from position i on.           *)
RECURSIVE OffsetTopSum(_, _)
OffsetTopSum(chain, i) ==
    IF i > Len(chain) THEN 0 ELSE chain[i] + OffsetTopSum(chain, i + 1)

(* The value getEndLocation returned to a run, recovered from the run's    *)
(* end offset by adding back the viewport offset of line 56.               *)
ResolvedEndLocation(r) ==
    RAdd(runs[r].endLocation, RMul(Num(viewportHeight(page)), OffsetFraction))

(* C12 as stated: the location resolved for the destination of a run is    *)
(* the sum of the offset-top values of the element and of its offset-      *)
(* parents, or 0 when that sum is negative.                                *)
C12_SumOfChainClamped ==
    \A r \in RunIds :
        ResolvedEndLocation(r) =
            Num(Max(0, OffsetTopSum(page.chain[runs[r].destination], 1)))

(* C12 amended: that holds of an element that has an offset-parent; for an *)
(* element without one the resolved location is 0, whatever its own        *)
(* offset-top.  The resolved location is never negative.                   *)
C12_SumOfChainClampedIfParent ==
    \A r \in RunIds :
        LET chain == page.chain[runs[r].destination]
        IN  /\ Len(chain) > 1 =>
                   ResolvedEndLocation(r) = Num(Max(0, OffsetTopSum(chain, 1)))
            /\ Len(chain) = 1 => ResolvedEndLocation(r) = Num(0)
            /\ RLeq(Num(0), ResolvedEndLocation(r))

(* A run was started toward an element whose cumulative offset is          *)
(* negative, and its resolved location is 0.                               *)
C12_Witness ==
    \E r \in RunIds :
        /\ Len(page.chain[runs[r].destination]) > 1
        /\ OffsetTopSum(page.chain[runs[r].destination], 1) < 0
        /\ ResolvedEndLocation(r) = Num(0)

RAbs(a) == IF a.n < 0 THEN RNeg(a) ELSE a

(* |distance| / speed * 1000 for the run's distance and the configured     *)
(* speed.                                                                  *)
AbsDurationMs(r) == RDiv(RMul(RAbs(runs[r].distance), Num(1000)), Num(settings.speed))

(* C13: the duration a scrollTo call computes is |distance| / speed * 1000 *)
(* and is never negative, for downward and for upward scrolls.             *)
C13_DurationIsAbsolute ==
    \A r \in RunIds :
        /\ runs[r].timeToAnimate = AbsDurationMs(r)
        /\ RLeq(Num(0), runs[r].timeToAnimate)

(* min(elapsed / duration, 1) with the duration |distance| / speed * 1000. *)
ClampedFraction(r) ==
    IF AbsDurationMs(r).n = 0 THEN Num(1)
    ELSE LET q == RDiv(Num(runs[r].timeLapsed), AbsDurationMs(r))
         IN  IF RLess(q, Num(1)) THEN q ELSE Num(1)

Between(x, a, b) == (RLeq(a, x) /\ RLeq(x, b)) \/ (RLeq(b, x) /\ RLeq(x, a))

(* C14: after every tick of a run, upward or downward, the fraction handed *)
(* to the easing function is min(elapsed / duration, 1), lies in [0,1],    *)
(* and the computed position lies between the start offset and the end     *)
(* offset, both included.                                                  *)
C14_FractionClampedNoOvershoot ==
    \A r \in RunIds :
        runs[r].timeLapsed > 0 =>
            /\ runs[r].percentage = ClampedFraction(r)
            /\ RLeq(Num(0), runs[r].percentage) /\ RLeq(runs[r].percentage, Num(1))
            /\ Between(runs[r].position, Num(runs[r].startLocation), runs[r].endLocation)

(* The terminating tick of a run has happened: its interval is cleared and *)
(* its callback, if it has one, was invoked.                               *)
Terminated(r) ==
    /\ r \in RunIds
    /\ ~runs[r].animationInterval
    /\ runs[r].stoppedAt >= 0
    /\ runs[r].focusCalls = 1
    /\ runs[r].callbackCalls = IF runs[r].callback = "none" THEN 0 ELSE 1

(* C15: with every due timer callback eventually run, each started run     *)
(* reaches a tick that clears its interval and invokes its callback,       *)
(* whatever its start offset, destination, direction and layout: whenever  *)
(* some started run has not terminated, a state follows in which every     *)
(* run started so far has.                                                 *)
C15_EveryRunTerminates ==
    (\E r \in RunIds : ~Terminated(r)) ~> (\A r \in RunIds : Terminated(r))

(* An upward run with a callback has terminated after more than one tick.  *)
C15_Witness ==
    \E r \in RunIds :
        /\ runs[r].distance.n < 0
        /\ runs[r].callback = "click"
        /\ Ticks(r) >= 2
        /\ Terminated(r)

(* How many times an effect occurs in the effects of a run.                *)
Count(r, effect) ==
    Cardinality({i \in 1..Len(runs[r].effects) : runs[r].effects[i] = effect})

(* C16: the interval of a run is cleared once, on the run's terminating    *)
(* tick, and never before: an interval is live exactly while its run has   *)
(* not terminated, so the live intervals are as many as the started, not   *)
(* yet terminated runs; once a run has terminated none of its closure      *)
(* variables changes again, that is, it ticks no more and writes no scroll *)
(* position.                                                               *)
C16_TimerClearedOnceAtTermination ==
    /\ [](\A r \in RunIds :
              /\ runs[r].animationInterval <=> runs[r].stoppedAt = -1
              /\ Count(r, "clearInterval") = IF runs[r].stoppedAt = -1 THEN 0 ELSE 1
              /\ runs[r].stoppedAt # -1 =>
                     runs[r].stoppedAt = runs[r].startedAt + runs[r].timeLapsed)
    /\ [](Cardinality({r \in RunIds : runs[r].animationInterval})
              = Cardinality({r \in RunIds : runs[r].stoppedAt = -1}))
    /\ [][\A r \in RunIds : runs[r].stoppedAt # -1 => runs'[r] = runs[r]]_vars

(* The first run has terminated and the second, still live, has ticked     *)
(* after that.                                                             *)
C16_Witness ==
    /\ Len(runs) = 2
    /\ runs[1].stoppedAt # -1
    /\ runs[2].animationInterval
    /\ runs[2].timeLapsed > 0
    /\ now > runs[1].stoppedAt

(* Run r ticks in this step.                                               *)
Ticking(r) == runs'[r].timeLapsed # runs[r].timeLapsed

(* C17: the terminating tick of a run clears the interval, then focuses    *)
(* the destination, then invokes the callback if there is one, all within  *)
(* that tick; a tick that does not terminate the run moves no focus and    *)
(* invokes no callback.                                                    *)
C17_ClearThenFocusThenCallback ==
    /\ [](\A r \in RunIds :
              runs[r].effects =
                  IF runs[r].stoppedAt = -1 THEN <<>>
                  ELSE IF runs[r].callback = "none" THEN <<"clearInterval", "focus">>
                  ELSE <<"clearInterval", "focus", "callback">>)
    /\ [][\A r \in RunIds :
              Ticking(r) =>
                  IF runs'[r].stoppedAt = -1
                  THEN /\ focused' = focused
                       /\ timeouts' = timeouts
                       /\ runs'[r].focusCalls = runs[r].focusCalls
                       /\ runs'[r].callbackCalls = runs[r].callbackCalls
                  ELSE /\ runs'[r].stoppedAt = now'
                       /\ focused' = runs[r].destination
                       /\ runs'[r].focusCalls = runs[r].focusCalls + 1
                       /\ runs'[r].callbackCalls = runs[r].callbackCalls
                              + (IF runs[r].callback = "none" THEN 0 ELSE 1)]_vars

(* A run with a callback has terminated after several ticks, and focus is  *)
(* on its destination.                                                     *)
C17_Witness ==
    \E r \in RunIds :
        /\ runs[r].effects = <<"clearInterval", "focus", "callback">>
        /\ Ticks(r) >= 2
        /\ focused = runs[r].destination

(* Run q was started while the earlier run r was live.                     *)
Overlapped(r, q) ==
    r < q /\ (runs[r].stoppedAt = -1 \/ runs[q].startedAt < runs[r].stoppedAt)

(* C18: a scrollTo call made while other runs are live leaves their        *)
(* closures and intervals as they are; a tick of one run changes no other  *)
(* run and writes that run's own floored position to the shared scroll     *)
(* offset; and in the end any two runs that were live together have both   *)
(* terminated, each with its own callback invoked.                         *)
C18_OverlapNotReconciled ==
    /\ [][\A r \in RunIds :
              /\ Len(runs') > Len(runs) => runs'[r] = runs[r]
              /\ Ticking(r) =>
                     /\ \A q \in RunIds \ {r} : runs'[q] = runs[q]
                     /\ pageYOffset' = ScrollClamp(page, RFloor(runs'[r].position))]_vars
    /\ <>[](\A r, q \in RunIds : Overlapped(r, q) => (Terminated(r) /\ Terminated(q)))

(* Two downward runs are live together and the shared offset has just      *)
(* moved back up: the later run wrote a position above the one the earlier *)
(* run had written before.                                                 *)
C18_Witness ==
    \E r, q \in RunIds :
        /\ r # q
        /\ Downward(r) /\ Downward(q)
        /\ runs[r].animationInterval /\ runs[q].animationInterval
        /\ runs[r].timeLapsed > 0 /\ runs[q].timeLapsed > 0
        /\ runs[q].nextFire - TickMs = now
        /\ pageYOffset = runs[q].reported
        /\ runs[q].reported < runs[r].reported

(* The nodes from a node up to the document, the document excluded.        *)
RECURSIVE PathUp(_)
PathUp(n) == IF n = "null" \/ n = "doc" THEN <<>> ELSE <<n>> \o PathUp(Dom[n].parentNode)

(* The condition of C19 on the originating node of a click: an anchor is   *)
(* on the path from the node up to the document, and the nearest one has   *)
(* an href that starts with '#', is not marked "ignore", and names the id  *)
(* of an element.                                                          *)
Qualifies(target) ==
    LET path    == PathUp(target)
        anchors == {i \in 1..Len(path) : Dom[path[i]].tagName = "A"}
    IN  /\ anchors # {}
        /\ LET a == path[CHOOSE i \in anchors : \A j \in anchors : i <= j]
           IN  /\ Dom[a].href # <<>>
               /\ Head(Dom[a].href) = "#"
               /\ Dom[a].smoothScroll # "ignore"
               /\ \E e \in Nodes : Dom[e].id # <<>> /\ Dom[e].id = Tail(Dom[a].href)

(* C19 as stated: a click has its default prevented and starts exactly one *)
(* run if and only if its originating node qualifies; otherwise the        *)
(* default is not prevented and no run is started.                         *)
C19_InterceptedIffQualifies ==
    [][lastEvent'.target # "null" =>
          IF Qualifies(lastEvent'.target)
          THEN lastEvent'.defaultPrevented /\ Len(runs') = Len(runs) + 1
          ELSE ~lastEvent'.defaultPrevented /\ runs' = runs]_vars

(* C19 amended: a click starts exactly one run if and only if its          *)
(* originating node qualifies, and otherwise starts none; its default is   *)
(* prevented if and only if the node qualifies and the click is            *)
(* cancelable, as every click of a user is and the click synthesized for a *)
(* "click" anchor is not.                                                  *)
C19_StartsIffQualifiesPreventsIfCancelable ==
    [][lastEvent'.target # "null" =>
          /\ IF Qualifies(lastEvent'.target)
             THEN /\ Len(runs') = Len(runs) + 1
                  /\ \A r \in RunIds : runs'[r] = runs[r]
                  /\ lastEvent'.started = Len(runs')
             ELSE runs' = runs /\ lastEvent'.started = 0
          /\ lastEvent'.defaultPrevented
                 <=> (Qualifies(lastEvent'.target) /\ ~lastEvent'.synthetic)]_vars

(* A user's click inside an anchor was intercepted, and later the click    *)
(* synthesized for that anchor reached the listener.                       *)
C19_Witness ==
    /\ lastEvent.synthetic
    /\ lastEvent.started = 2
    /\ ~lastEvent.defaultPrevented
    /\ runs[1].callback = "click"

(* C20: history.pushState is never invoked, whatever clicks arrive and     *)
(* whatever runs they start: the pushed URLs stay empty.                   *)
C20_HistoryNeverPushed == history = <<>>

(* A second click has just been intercepted after the run of a first one   *)
(* terminated, and nothing was pushed.                                     *)
C20_Witness ==
    /\ lastEvent.defaultPrevented
    /\ lastEvent.started = 2
    /\ Terminated(1)
    /\ history = <<>>

====
